---- MODULE Spec2Model ----
(***************************************************************************)
(* Model of transcoder.py: the inventory parser (Transcoder.probe), the   *)
(* conversion planner, the ordering and the codec part of the command     *)
(* line (Transcoder.transcode) and the multi-file driver (__main__).      *)
(*                                                                         *)
(* Python values are represented as follows.  None is the string "None".  *)
(* A Track object is a record of its attributes; its options attribute,   *)
(* which the code only tests for truth and concatenates, is a sequence    *)
(* and None is the empty sequence.  A line of ffprobe output is a record  *)
(* of the pieces of text FFPROBE_REGEX tells apart.  The codec part of    *)
(* cmd is a sequence of directives, one per '-c:<kind>:<i>' flag, with    *)
(* the codec token and the option tokens that follow the flag.  The input *)
(* files, the -map and -metadata arguments and the output options of cmd  *)
(* raise nothing and decide none of the properties below; they are left   *)
(* out.                                                                    *)
(***************************************************************************)
EXTENDS Integers, Sequences, FiniteSets, TLC

\* ---------------------------------------------------------------- bounds
MaxLines == 3
MaxSources == 2

\* ------------------------------------------------------------- constants
None == "None"

FORMATS_VIDEO == <<"h264">>
FORMATS_STEREO == <<"aac">>
FORMATS_LOSSLESS == <<"flac">>
FORMATS_SURROUND == <<"ac3", "dts">>
FORMATS_CONVERT == <<"vorbis">>
FORMATS_SUBTITLE == <<"subrip", "mov_text">>
FORMATS ==
  FORMATS_VIDEO \o FORMATS_STEREO \o FORMATS_CONVERT \o FORMATS_SURROUND
    \o FORMATS_LOSSLESS \o FORMATS_SUBTITLE

\* x in list
In(x, list) == \E i \in 1..Len(list) : list[i] = x

\* list.index(x), zero-based; -1 stands for the ValueError of a missing x
index(list, x) ==
  IF In(x, list) THEN (CHOOSE i \in 1..Len(list) :
                         list[i] = x /\ \A j \in 1..(i - 1) : list[j] # x) - 1
  ELSE -1

\* ----------------------------------------------------------------- Track
Track(file_id, track_id, language, format, trackfile, temporary, codec, surround, options) ==
  [file_id |-> file_id, track_id |-> track_id, language |-> language,
   format |-> format, trackfile |-> trackfile, temporary |-> temporary,
   codec |-> codec, surround |-> surround, options |-> options]

\* key with the two ranks in the wrong order
key_format_first(track, languages) ==
  <<index(FORMATS, track.format), index(languages, track.language)>>

\* Track.key: (languages.index(language), FORMATS.index(format))
key(track, languages) ==
  <<index(languages, track.language), index(FORMATS, track.format)>>

\* -------------------------------------------------------- ffprobe output
\* The lines ffprobe can print, as far as FFPROBE_REGEX distinguishes them:
\*   stream   the line starts with 'Stream #<file_id>:<track_id>' and goes on
\*            with ': <track_type>: <format>' (otherwise the regex fails)
\*   language the tag in '(<language>)', None when the line has none
\*   paren    ' (<detail>)' follows the format
\*   tail     the pieces of text that follow, each one preceded by ', ':
\*            "5.1(side)" is the layout marker, "text)" a piece without the
\*            marker that ends with ')', "text" any other piece
Line(stream, language, track_type, format, paren, tail) ==
  [stream |-> stream, file_id |-> 0, track_id |-> 0, language |-> language,
   track_type |-> track_type, format |-> format, paren |-> paren,
   tail |-> tail]

LineShapes ==
  { Line(FALSE, None, "Input", "matroska", FALSE, <<"text">>),
    Line(TRUE, None, "Video", "h264", TRUE, <<"text">>),
    Line(TRUE, "rus", "Video", "h264", TRUE, <<"text", "text)", "text">>),
    Line(TRUE, "eng", "Audio", "aac", TRUE, <<"text", "text">>),
    Line(TRUE, "eng", "Audio", "vorbis", FALSE, <<"text", "text">>),
    Line(TRUE, "eng", "Audio", "ac3", FALSE, <<"text", "5.1(side)", "text">>),
    Line(TRUE, "eng", "Audio", "flac", TRUE, <<"text", "5.1(side)">>),
    Line(TRUE, "rus", "Audio", "flac", TRUE, <<"text", "5.1(side)", "text">>),
    Line(TRUE, "fra", "Audio", "ac3", FALSE, <<"text">>),
    Line(TRUE, "eng", "Audio", "aac", FALSE, <<>>),
    Line(TRUE, "eng", "Subtitle", "subrip", FALSE, <<>>),
    Line(TRUE, "rus", "Subtitle", "mov_text", TRUE, <<>>) }

\* An ffprobe report: the stream lines of one input file are numbered in
\* the order they are printed, '#0:0', '#0:1', ...
Numbered(shapes) ==
  [i \in 1..Len(shapes) |-> [shapes[i] EXCEPT !.track_id = i - 1]]

Outputs ==
  { Numbered(shapes) :
      shapes \in UNION { [1..n -> LineShapes] : n \in 0..MaxLines } }

\* a piece of text that ends with ')'
closes(piece) == piece \in {"5.1(side)", "text)"}

\* '5.1(side)' in text, for text given by its pieces
has_side_marker(pieces) == \E i \in 1..Len(pieces) : pieces[i] = "5.1(side)"

\* FFPROBE_REGEX.match(line).groupdict(); matched = FALSE is 'not m'.  The
\* groups subformat and other are given by their pieces of text, and <<>>
\* is None (neither group can match the empty string of a stripped line).
\* The group '(\s*(\((?P<subformat>.*)\))?,\s+(?P<other>.*))?' is optional
\* as a whole and needs the comma: without ', <text>' both subformat and
\* other are None, whether or not a parenthesized detail is there.  With
\* ' (<detail>)' after the format, '.*' in subformat is greedy: subformat
\* runs to the last ')' of the line that ', ' follows, which is the end of
\* the detail or of a later piece, and other is what follows that.
FFPROBE_REGEX(line) ==
  LET n == Len(line.tail)
      cut == IF line.paren /\ n > 0
               THEN CHOOSE k \in 0..(n - 1) :
                      /\ k = 0 \/ closes(line.tail[k])
                      /\ \A j \in (k + 1)..(n - 1) : ~closes(line.tail[j])
               ELSE 0
  IN [matched |-> line.stream,
      file_id |-> line.file_id,
      track_id |-> line.track_id,
      language |-> line.language,
      track_type |-> line.track_type,
      format |-> line.format,
      subformat |-> IF line.paren /\ n > 0
                      THEN <<"detail">> \o SubSeq(line.tail, 1, cut)
                      ELSE <<>>,
      other |-> SubSeq(line.tail, cut + 1, n)]

\* ----------------------------------------------------------------- probe
\* the language decision without the check against the allowed languages
language_filter_no_skip(d, languages, force_language) ==
  IF force_language # None /\ d.language = None THEN force_language
  ELSE d.language

\* The language decision of probe: the language the track gets, or "skip"
\* for 'continue'.
language_filter(d, languages, force_language) ==
  IF force_language # None /\ d.language = None THEN force_language
  ELSE IF ~In(d.language, languages) THEN "skip"
  ELSE d.language

\* The loop of probe over the lines, from line i on.  st holds the three
\* lists and the exception raised so far (None: none).
RECURSIVE probe_loop(_, _, _, _, _, _)
probe_loop(output, i, source, languages, force_language, st) ==
  IF i > Len(output) \/ st.error # None THEN st
  ELSE
    LET m == FFPROBE_REGEX(output[i])
        lang == language_filter(m, languages, force_language)
        t == Track(m.file_id, m.track_id, lang, m.format, source, FALSE,
                   "copy", FALSE, <<>>)
        next ==
          IF ~m.matched THEN st
          ELSE IF lang = "skip" THEN st
          ELSE IF ~In(m.format, FORMATS) THEN st
          ELSE IF m.track_type = "Video"
            THEN [st EXCEPT !.video = Append(@, t)]
          ELSE IF m.track_type = "Audio"
            THEN IF m.other = <<>>
                   THEN [st EXCEPT !.error = "TypeError"]
                   ELSE [st EXCEPT !.audio =
                           Append(@, [t EXCEPT !.surround =
                                        has_side_marker(m.other)])]
          ELSE IF m.track_type = "Subtitle"
            THEN [st EXCEPT !.subs = Append(@, t)]
          ELSE st
    IN probe_loop(output, i + 1, source, languages, force_language, next)

probe(output, source, languages, force_language) ==
  probe_loop(output, 1, source, languages, force_language,
             [video |-> <<>>, audio |-> <<>>, subs |-> <<>>, error |-> None])

\* ------------------------------------------------------------- transcode
dts_convert_audio(track) ==
  Track(track.file_id, track.track_id, track.language, "dts", None, FALSE,
        "dca", FALSE, <<>>)

\* the stereo-AAC track built without the codec argument (default 'copy')
aac_convert_audio_default_codec(track) ==
  Track(track.file_id, track.track_id, track.language, "aac", None, FALSE,
        "copy", FALSE,
        <<"-ac", "2", "-b:a", "192k", "-cutoff", "18000">>)

aac_convert_audio(track) ==
  Track(track.file_id, track.track_id, track.language, "aac", None, FALSE,
        "libfdk_aac", FALSE,
        <<"-ac", "2", "-b:a", "192k", "-cutoff", "18000">>)

\* list.remove(track) for the Track object at (one-based) position pos.
\* Track defines no __eq__, so remove compares by identity, and an object
\* is in the list once: the item removed is the one at pos, even when an
\* earlier item has equal attributes.
remove(list, pos) ==
  SubSeq(list, 1, pos - 1) \o SubSeq(list, pos + 1, Len(list))

\* The body of the planning loop for the track at position pos of tracks.
policy(tracks, pos) ==
  LET track == tracks[pos] IN
  IF In(track.format, FORMATS_SURROUND)
    THEN Append(tracks, aac_convert_audio(track))
  ELSE IF In(track.format, FORMATS_CONVERT)
    THEN remove(Append(tracks, aac_convert_audio(track)), pos)
  ELSE IF In(track.format, FORMATS_LOSSLESS)
    THEN LET with_dts == IF track.surround
                           THEN Append(tracks, dts_convert_audio(track))
                           ELSE tracks
         IN remove(Append(with_dts, aac_convert_audio(track)), pos)
  ELSE tracks

\* 'for track in islice(self.audio_tracks, len(self.audio_tracks))': the
\* list iterator reads self.audio_tracks[it] from the list as it is at that
\* moment and stops when it is past the end; islice stops it after n items.
\* it is the iterator's zero-based index, which also counts the items
\* yielded.  Returns the list, the tracks the body ran on, in order, and
\* the last binding of the loop variable (<<>>: never bound).
RECURSIVE policy_loop(_, _, _, _, _)
policy_loop(tracks, it, n, seen, loopvar) ==
  IF it >= n \/ it >= Len(tracks)
    THEN [audio |-> tracks, evaluated |-> seen, track |-> loopvar]
    ELSE policy_loop(policy(tracks, it + 1), it + 1, n,
                     Append(seen, tracks[it + 1]), <<tracks[it + 1]>>)

\* Python's order on the key tuples
key_le(a, b) == a[1] < b[1] \/ (a[1] = b[1] /\ a[2] <= b[2])

\* sorted(list, key=lambda x: x.key(languages)): a stable sort, here by
\* insertion of each item after the items whose key is not larger.
RECURSIVE sorted(_, _)
sorted(list, languages) ==
  IF list = <<>> THEN <<>>
  ELSE
    LET n == Len(list)
        s == sorted(SubSeq(list, 1, n - 1), languages)
        x == list[n]
        p == Cardinality({ i \in 1..Len(s) :
                             key_le(key(s[i], languages), key(x, languages)) })
    IN SubSeq(s, 1, p) \o <<x>> \o SubSeq(s, p + 1, Len(s))

\* languages.index raises ValueError for a language that is not ranked
key_raises(list, languages) ==
  \E i \in 1..Len(list) : index(languages, list[i].language) = -1

\* 'Set up track codecs': the three loops that add '-c:v:%d', '-c:a:%d'
\* and '-c:s:%d' with the codec and the options.  track is the binding of
\* the local variable 'track' before the loops.  The subtitle loop reads
\* 'track' without assigning it: it holds what the audio loop, else the
\* video loop, else the planning loop left in it.  When none of them bound
\* it, the read raises UnboundLocalError after '-c:s:0' and 'mov_text' were
\* added to cmd.
codec_directives(video, audio, subs, track) ==
  LET after_video == IF video # <<>> THEN <<video[Len(video)]>> ELSE track
      after_audio == IF audio # <<>> THEN <<audio[Len(audio)]>>
                                     ELSE after_video
      v == [i \in 1..Len(video) |->
              [flag |-> "-c:v", index |-> i - 1, codec |-> video[i].codec,
               options |-> video[i].options]]
      a == [i \in 1..Len(audio) |->
              [flag |-> "-c:a", index |-> i - 1, codec |-> audio[i].codec,
               options |-> audio[i].options]]
      s == [i \in 1..Len(subs) |->
              [flag |-> "-c:s", index |-> i - 1, codec |-> "mov_text",
               options |-> after_audio[1].options]]
  IN IF subs # <<>> /\ after_audio = <<>>
       THEN [cmd |-> v \o a \o <<[flag |-> "-c:s", index |-> 0,
                                   codec |-> "mov_text", options |-> <<>>]>>,
             error |-> "UnboundLocalError"]
       ELSE [cmd |-> v \o a \o s, error |-> None]

\* Transcoder.transcode; status is ffmpeg's exit status.  The result holds
\* the three lists and cmd as the method leaves them, the exception it
\* raises (None: it returns), the number of subprocess.check_call
\* invocations, the tracks the planning loop ran on and the lists as they
\* were handed to sorted().  The three sorted() calls run in the order
\* video, audio, subtitle, and a list is replaced only when its own call
\* returned.
transcode(video, audio, subs, languages, status) ==
  LET planned == policy_loop(audio, 0, Len(audio), <<>>, <<>>)
      base == [video |-> video, audio |-> planned.audio, subs |-> subs,
               cmd |-> <<>>, evaluated |-> planned.evaluated,
               presort |-> [video |-> video, audio |-> planned.audio,
                            subs |-> subs],
               calls |-> 0, error |-> None]
      sv == sorted(video, languages)
      sa == sorted(planned.audio, languages)
      ss == sorted(subs, languages)
      c == codec_directives(sv, sa, ss, planned.track)
  IN IF video = <<>> /\ audio = <<>> /\ subs = <<>>
       THEN base   \* 'Nothing to convert': returns before the loop
     ELSE IF key_raises(video, languages)
       THEN [base EXCEPT !.error = "ValueError"]
     ELSE IF key_raises(planned.audio, languages)
       THEN [base EXCEPT !.video = sv, !.error = "ValueError"]
     ELSE IF key_raises(subs, languages)
       THEN [base EXCEPT !.video = sv, !.audio = sa, !.error = "ValueError"]
     ELSE IF c.error # None
       THEN [base EXCEPT !.video = sv, !.audio = sa, !.subs = ss,
                         !.cmd = c.cmd, !.error = c.error]
     ELSE [base EXCEPT !.video = sv, !.audio = sa, !.subs = ss,
                       !.cmd = c.cmd, !.calls = 1,
                       !.error = IF status = 0 THEN None
                                  ELSE "CalledProcessError"]

\* ----------------------------------------------------------------- state
VARIABLES
  remaining,       \* the sources of args.source after the current one
  languages,       \* args.languages or DEFAULT_LANGUAGES.keys()
  force_language,  \* args.force_language
  pc,              \* "loop", "probed", "transcoded", "exit" or "raised"
  error,           \* the uncaught exception that ended the run, or None
  output,          \* what ffprobe printed for the current source
  video_tracks, audio_tracks, subs_tracks,   \* of the current Transcoder
  cmd,             \* the codec directives of the ffmpeg command line
  discovered,      \* self.audio_tracks as probe left it
  evaluated,       \* the values of 'track' in the planning loop, in order
  presort,         \* the three lists as they were before sorted()
  calls            \* the ffmpeg invocations of the current Transcoder

vars ==
  <<remaining, languages, force_language, pc, error, output, video_tracks,
    audio_tracks, subs_tracks, cmd, discovered, evaluated, presort, calls>>

LanguageArgs == { <<"eng", "rus">> }
ForceArgs == { None, "eng", "fra" }

NoLists == [video |-> <<>>, audio |-> <<>>, subs |-> <<>>]

Init ==
  /\ remaining \in 0..(MaxSources - 1)
  /\ languages \in LanguageArgs
  /\ force_language \in ForceArgs
  /\ pc = "loop"
  /\ error = None
  /\ output = <<>>
  /\ video_tracks = <<>>
  /\ audio_tracks = <<>>
  /\ subs_tracks = <<>>
  /\ cmd = <<>>
  /\ discovered = <<>>
  /\ evaluated = <<>>
  /\ presort = NoLists
  /\ calls = 0

\* t.probe() with ffprobe printing out
Probe ==
  /\ pc = "loop"
  /\ \E out \in Outputs :
       LET r == probe(out, "source", languages, force_language) IN
       /\ output' = out
       /\ video_tracks' = r.video
       /\ audio_tracks' = r.audio
       /\ subs_tracks' = r.subs
       /\ discovered' = r.audio
       /\ error' = r.error
       /\ pc' = IF r.error = None THEN "probed" ELSE "raised"
  /\ UNCHANGED <<remaining, languages, force_language, cmd, evaluated,
                 presort, calls>>

\* t.probe() with ffprobe exiting with a non-zero status:
\* subprocess.check_output raises CalledProcessError
ProbeFails ==
  /\ pc = "loop"
  /\ error' = "CalledProcessError"
  /\ pc' = "raised"
  /\ UNCHANGED <<remaining, languages, force_language, output, video_tracks,
                 audio_tracks, subs_tracks, cmd, discovered, evaluated,
                 presort, calls>>

\* t.transcode(), ffmpeg exiting with status
Transcode ==
  /\ pc = "probed"
  /\ \E status \in {0, 1} :
       LET r == transcode(video_tracks, audio_tracks, subs_tracks, languages,
                          status) IN
       /\ video_tracks' = r.video
       /\ audio_tracks' = r.audio
       /\ subs_tracks' = r.subs
       /\ cmd' = r.cmd
       /\ evaluated' = r.evaluated
       /\ presort' = r.presort
       /\ calls' = r.calls
       /\ error' = r.error
       /\ pc' = IF r.error = None THEN "transcoded" ELSE "raised"
  /\ UNCHANGED <<remaining, languages, force_language, output, discovered>>

\* 'for source in args.source': the end of the script after the last
\* source, else the next source and its Transcoder(source, ...), whose
\* three lists are empty
NextSource ==
  /\ pc = "transcoded"
  /\ IF remaining > 0
       THEN /\ remaining' = remaining - 1
            /\ pc' = "loop"
            /\ output' = <<>>
            /\ video_tracks' = <<>>
            /\ audio_tracks' = <<>>
            /\ subs_tracks' = <<>>
            /\ cmd' = <<>>
            /\ discovered' = <<>>
            /\ evaluated' = <<>>
            /\ presort' = NoLists
            /\ calls' = 0
       ELSE /\ remaining' = remaining
            /\ pc' = "exit"
            /\ UNCHANGED <<output, video_tracks, audio_tracks, subs_tracks,
                           cmd, discovered, evaluated, presort, calls>>
  /\ UNCHANGED <<languages, force_language, error>>

Next == Probe \/ ProbeFails \/ Transcode \/ NextSource

Spec == Init /\ [][Next]_vars

\* ---------------------------------------------------------------- claims
Items(list) == { list[i] : i \in 1..Len(list) }

SamePair(a, b) == a.file_id = b.file_id /\ a.track_id = b.track_id

\* the synthetic tracks of the given format and codec derived from track
Derived(list, track, format, codec) ==
  { j \in 1..Len(list) :
      /\ list[j].format = format
      /\ list[j].codec = codec
      /\ SamePair(list[j], track)
      /\ list[j].language = track.language }

\* ffmpeg was called: planning, ordering and the command line are complete
Planned == calls = 1

\* C1: after the planning pass every discovered ac3 or dts track is still
\* in the audio list with codec 'copy', and the list holds exactly one
\* stereo-AAC track (aac, libfdk_aac) derived from it.
C1_SurroundKeptWithOneAac ==
  Planned =>
    \A i \in 1..Len(discovered) :
      In(discovered[i].format, <<"ac3", "dts">>) =>
        /\ discovered[i].codec = "copy"
        /\ discovered[i] \in Items(audio_tracks)
        /\ Cardinality(Derived(audio_tracks, discovered[i], "aac",
                               "libfdk_aac")) = 1

\* C2: after the planning pass every discovered flac track with the
\* surround flag has exactly one derived stereo-AAC track and exactly one
\* derived DTS track (codec dca) in the audio list, and is itself absent.
C2_LosslessSurroundReplaced ==
  Planned =>
    \A i \in 1..Len(discovered) :
      (discovered[i].format = "flac" /\ discovered[i].surround) =>
        /\ Cardinality(Derived(audio_tracks, discovered[i], "aac",
                               "libfdk_aac")) = 1
        /\ Cardinality(Derived(audio_tracks, discovered[i], "dts", "dca")) = 1
        /\ discovered[i] \notin Items(audio_tracks)

\* C3: in one planning pass the policy runs exactly once on every track the
\* parser discovered and never on a synthetic track (one with no trackfile).
C3_PolicyOncePerDiscovered ==
  Planned =>
    /\ \A i \in 1..Len(discovered) :
         Cardinality({ j \in 1..Len(evaluated) :
                         evaluated[j] = discovered[i] }) = 1
    /\ \A j \in 1..Len(evaluated) : evaluated[j].trackfile # None

\* C4: a failure of ffprobe or of ffmpeg for one source does not end the
\* run while later sources are left: they are still probed.
C4_FailureDoesNotAbort ==
  (pc = "raised" /\ error = "CalledProcessError") => remaining = 0

StreamLines == { i \in 1..Len(output) : output[i].stream }

Kept(line) ==
  \E t \in Items(video_tracks) \cup Items(audio_tracks)
             \cup Items(subs_tracks) :
    t.file_id = line.file_id /\ t.track_id = line.track_id

\* C5: every track in the video, audio or subtitle list has a language that
\* is in the allowed set or is the forced language; an untagged stream line
\* is dropped when no language is forced, and a line tagged with a language
\* that is not allowed is dropped, also when a language is forced.
C5_LanguagesAllowedOrForced ==
  /\ \A t \in Items(video_tracks) \cup Items(audio_tracks)
                \cup Items(subs_tracks) :
       \/ \E k \in 1..Len(languages) : languages[k] = t.language
       \/ (force_language # None /\ t.language = force_language)
  /\ \A i \in StreamLines :
       /\ (output[i].language = None /\ force_language = None)
            => ~Kept(output[i])
       /\ (output[i].language # None
           /\ \A k \in 1..Len(languages) : languages[k] # output[i].language)
            => ~Kept(output[i])

C5_Witness ==
  /\ pc = "probed"
  /\ force_language = "fra"
  /\ \E t \in Items(video_tracks) : t.language = "fra"
  /\ \E i \in StreamLines : output[i].language = "fra" /\ ~Kept(output[i])
  /\ \E t \in Items(audio_tracks) : t.language = "eng"

\* an Audio line with an allowed language and a recognized codec that has
\* neither a parenthesized codec detail nor trailing text
BareAudio(line) ==
  /\ line.stream
  /\ line.track_type = "Audio"
  /\ \E k \in 1..Len(languages) : languages[k] = line.language
  /\ line.format \in {"aac", "vorbis", "ac3", "dts", "flac"}
  /\ ~line.paren
  /\ line.tail = <<>>

\* C6: parsing an Audio line that has no parenthesized codec detail and no
\* trailing text raises no error and appends one audio track whose surround
\* flag is false.
C6_BareAudioLineParsed ==
  \A i \in 1..Len(output) :
    BareAudio(output[i]) =>
      /\ error # "TypeError"
      /\ Cardinality({ j \in 1..Len(discovered) :
                         /\ discovered[j].track_id = output[i].track_id
                         /\ ~discovered[j].surround }) = 1

NoDuplicatePair(list) ==
  \A i, j \in 1..Len(list) : (i < j) => ~SamePair(list[i], list[j])

\* C7: none of the video, audio and subtitle lists holds two records with
\* the same (file_id, track_id) pair.
C7_NoDuplicatePairs ==
  /\ NoDuplicatePair(video_tracks)
  /\ NoDuplicatePair(audio_tracks)
  /\ NoDuplicatePair(subs_tracks)

\* C7 as amended: the video and subtitle lists hold no two records with the
\* same (file_id, track_id) pair, and the audio list holds no two
\* pass-through records (codec 'copy') with the same pair; a synthetic audio
\* track shares the pair of the track it is derived from.
C7_NoDuplicatePassThroughPairs ==
  /\ NoDuplicatePair(video_tracks)
  /\ NoDuplicatePair(subs_tracks)
  /\ \A i, j \in 1..Len(audio_tracks) :
       (i < j /\ SamePair(audio_tracks[i], audio_tracks[j])) =>
         ~(audio_tracks[i].codec = "copy" /\ audio_tracks[j].codec = "copy")

C7_Witness ==
  /\ Planned
  /\ Len(video_tracks) >= 1
  /\ \E i, j \in 1..Len(audio_tracks) :
       /\ i < j
       /\ SamePair(audio_tracks[i], audio_tracks[j])
       /\ audio_tracks[j].codec = "copy"
       /\ audio_tracks[i].codec = "libfdk_aac"
  /\ \E i, j \in 1..Len(audio_tracks) :
       ~SamePair(audio_tracks[i], audio_tracks[j])

\* the format table of the claim, and the one-based position of x in a
\* table that holds it once
RankTable ==
  <<"h264", "aac", "vorbis", "ac3", "dts", "flac", "subrip", "mov_text">>

Rank(table, x) == CHOOSE i \in 1..Len(table) : table[i] = x

RankKey(t) == <<Rank(languages, t.language), Rank(RankTable, t.format)>>

RankOrdered(list) ==
  \A i, j \in 1..Len(list) :
    (i < j) =>
      \/ RankKey(list[i])[1] < RankKey(list[j])[1]
      \/ /\ RankKey(list[i])[1] = RankKey(list[j])[1]
         /\ RankKey(list[i])[2] <= RankKey(list[j])[2]

\* the tracks with equal keys are in the list in the order they had before
RankStable(list, before) ==
  /\ Len(list) = Len(before)
  /\ \A t \in Items(before) :
       LET SameKey(u) == RankKey(u) = RankKey(t)
       IN SelectSeq(list, SameKey) = SelectSeq(before, SameKey)

\* C8: each final list is ordered by (rank of the language in the language
\* ranking, rank of the format in h264, aac, vorbis, ac3, dts, flac, subrip,
\* mov_text), and tracks with equal keys keep the order they had before
\* sorting.
C8_ListsOrderedByRank ==
  Planned =>
    /\ RankOrdered(video_tracks) /\ RankStable(video_tracks, presort.video)
    /\ RankOrdered(audio_tracks) /\ RankStable(audio_tracks, presort.audio)
    /\ RankOrdered(subs_tracks) /\ RankStable(subs_tracks, presort.subs)

C8_Witness ==
  /\ Planned
  /\ presort.audio # audio_tracks
  /\ \E i, j \in 1..Len(audio_tracks) :
       /\ i < j
       /\ RankKey(audio_tracks[i]) = RankKey(audio_tracks[j])
       /\ audio_tracks[i] # audio_tracks[j]
  /\ \E i, j \in 1..Len(audio_tracks) :
       RankKey(audio_tracks[i])[1] < RankKey(audio_tracks[j])[1]
  /\ \E i, j \in 1..Len(audio_tracks) :
       /\ RankKey(audio_tracks[i])[1] = RankKey(audio_tracks[j])[1]
       /\ RankKey(audio_tracks[i])[2] < RankKey(audio_tracks[j])[2]

\* the directive expected for the track at position i of its kind
OwnDirective(d, flag, list, i) ==
  /\ d.flag = flag
  /\ d.index = i - 1
  /\ d.options = list[i].options

\* C9: the command line has exactly one codec directive per output track,
\* keyed by the track's zero-based position within its kind, and the options
\* of each directive are that track's own options.
C9_OneDirectivePerTrack ==
  Planned =>
    LET nv == Len(video_tracks)
        na == Len(audio_tracks)
        ns == Len(subs_tracks)
    IN /\ Len(cmd) = nv + na + ns
       /\ \A i \in 1..nv : OwnDirective(cmd[i], "-c:v", video_tracks, i)
       /\ \A i \in 1..na : OwnDirective(cmd[nv + i], "-c:a", audio_tracks, i)
       /\ \A i \in 1..ns :
            OwnDirective(cmd[nv + na + i], "-c:s", subs_tracks, i)

\* transcode has returned or raised
TranscodeDone ==
  \/ pc \in {"transcoded", "exit"}
  \/ pc = "raised" /\ error \in {"ValueError", "UnboundLocalError"}
  \/ pc = "raised" /\ error = "CalledProcessError" /\ calls = 1

\* C10: when one of the three lists is not empty after parsing, transcode
\* builds the command line without an internal error and calls ffmpeg
\* exactly once; ffmpeg is not called only when all three lists are empty.
C10_EncoderCalledOnce ==
  TranscodeDone =>
    IF video_tracks # <<>> \/ discovered # <<>> \/ subs_tracks # <<>>
      THEN calls = 1 /\ error \notin {"ValueError", "UnboundLocalError"}
      ELSE calls = 0

====
